---- MODULE Spec2Model ----
(***************************************************************************)
(* srdf::Model (src/srdf/src/model.cpp): loading a semantic robot          *)
(* description against a kinematic (URDF) model.                           *)
(*                                                                         *)
(* Strings are sequences of one-character strings, so that boost::trim,    *)
(* operator>> and boost::lexical_cast are computed and not assumed.  A     *)
(* missing attribute (TiXmlElement::Attribute returning a null pointer) is *)
(* the value NULL.  The document tree and the kinematic model are the      *)
(* inputs; they are drawn in Init and never change.                        *)
(***************************************************************************)
EXTENDS Integers, Sequences, FiniteSets, TLC

\* ------------------------------------------------------------------ bounds
MaxLinks == 3        \* links of the kinematic model
MaxGroups == 2       \* <group> elements of a document
MaxSubs == 1         \* nested <group> elements of one group
MaxValLen == 3       \* characters of a group state's value attribute
MaxStateJoints == 1  \* <joint> children of a group state (structure family)
MaxLoads == 2        \* load attempts made on one Model

\* ----------------------------------------------------------------- strings
NULL == <<"NULL">>
WS == {" "}
Digits == {"1"}

RECURSIVE TrimLeft(_)
TrimLeft(s) == IF s # <<>> /\ Head(s) \in WS THEN TrimLeft(Tail(s)) ELSE s

RECURSIVE TrimRight(_)
TrimRight(s) ==
  IF s # <<>> /\ s[Len(s)] \in WS THEN TrimRight(SubSeq(s, 1, Len(s) - 1)) ELSE s

\* boost::trim_copy / boost::trim
trim_copy(s) == TrimRight(TrimLeft(s))

\* ::tolower applied by std::transform
tolower(s) == [i \in 1..Len(s) |-> IF s[i] = "F" THEN "f" ELSE s[i]]

RECURSIVE SeqsUpTo(_, _)
SeqsUpTo(S, n) ==
  IF n = 0 THEN {<<>>}
  ELSE LET shorter == SeqsUpTo(S, n - 1)
       IN  shorter \cup {Append(s, x) : s \in {t \in shorter : Len(t) = n - 1}, x \in S}

\* --------------------------------------------------------- kinematic model
Dig == <<"1", "2", "3", "4", "5", "6", "7", "8", "9">>
LinkName(i) == <<"l", Dig[i]>>
JointName(i) == <<"j", Dig[i]>>
Links == 1..MaxLinks

RECURSIVE Up(_, _, _)
\* the link reached from i after k applications of Link::getParent (0: none)
Up(parent, i, k) == IF k = 0 \/ i = 0 THEN i ELSE Up(parent, parent[i], k - 1)

\* parent-link relations without a cycle: every upward walk reaches a root
Forests == {p \in [Links -> 0..MaxLinks] : \A i \in Links : Up(p, i, MaxLinks) = 0}

\* urdf::ModelInterface::getLink: the link of that name, or 0 (null pointer)
getLink(urdf, nm) ==
  IF \E i \in Links : LinkName(i) = nm
  THEN CHOOSE i \in Links : LinkName(i) = nm
  ELSE 0

\* urdf::ModelInterface::getJoint: every non-root link hangs on one joint
getJoint(urdf, nm) == \E i \in Links : urdf.parent[i] # 0 /\ JointName(i) = nm

\* urdf::Link::getParent
getParent(urdf, l) == urdf.parent[l]

\* ---------------------------------------------------------------- documents
\* A document is its root element: the tag, the name attribute and the child
\* elements of each tag in document order.  Every attribute is a string or NULL.
rName == <<"r">>
nA == <<"a">>
nApad == <<" ", "a">>
nB == <<"b">>
nBpad == <<"b", " ">>
nC == <<"c">>
nZ == <<"z", "z">>
tFixed == <<"f", "i", "x", "e", "d">>
tFloating == <<" ", "F", "l", "o", "a", "t", "i", "n", "g">>
tPlanar == <<"p", "l", "a", "n", "a", "r">>
tBogus == <<"h", "i", "n", "g", "e">>

GroupElem(nm, links, joints, chains, subs) ==
  [name |-> nm, link |-> links, joint |-> joints, chain |-> chains, group |-> subs]

EmptyDoc ==
  [tag |-> "robot", name |-> rName, virtual_joint |-> <<>>, group |-> <<>>,
   group_state |-> <<>>, end_effector |-> <<>>, visual_sensor |-> <<>>,
   disable_collisions |-> <<>>]

DefaultUrdf == [name |-> rName, parent |-> [i \in Links |-> i - 1]]

World(u, d, b) == [urdf |-> u, xml |-> d, lhs_first |-> b]

\* groups that differ in their names and subgroup lists
GroupRawNames == {nApad, nB}
SubRawNames == {nA, nBpad}
GroupChoices(maxsubs) ==
  {GroupElem(n, <<>>, <<>>, <<>>, ss) :
     n \in GroupRawNames, ss \in SeqsUpTo(SubRawNames, maxsubs)}
\* up to MaxGroups groups of at most one subgroup, and two groups of up to
\* MaxSubs subgroups
SubgroupDocs ==
  { [EmptyDoc EXCEPT !.group = gs] : gs \in SeqsUpTo(GroupChoices(1), MaxGroups) }
  \cup { [EmptyDoc EXCEPT !.group = <<g1, g2>>] :
           g1 \in GroupChoices(MaxSubs), g2 \in GroupChoices(MaxSubs) }

\* the worked examples: arm / arm_with_gripper with an undeclared gripper, and
\* a group of the name of a pruned one
ScenarioDocs ==
  { [EmptyDoc EXCEPT !.group =
       <<GroupElem(nA, <<>>, <<>>, <<>>, <<>>), GroupElem(nB, <<>>, <<>>, <<>>, <<nA, nC>>)>>],
    [EmptyDoc EXCEPT !.group =
       <<GroupElem(nA, <<>>, <<>>, <<>>, <<nC>>), GroupElem(nA, <<>>, <<>>, <<>>, <<>>),
         GroupElem(nC, <<>>, <<>>, <<>>, <<nA, nB>>)>>] }

\* one group with one chain between two links, over every forest
ChainDoc(b, t) ==
  [EmptyDoc EXCEPT !.group =
     <<GroupElem(nA, <<>>, <<>>, <<[base_link |-> b, tip_link |-> t]>>, <<>>)>>]
ChainWorlds ==
  { World([name |-> rName, parent |-> p], ChainDoc(LinkName(b), LinkName(t)), TRUE) :
      p \in Forests, b \in Links, t \in Links }
\* chains with a missing, unknown or padded link name, and two chains in a group
ChainFaultDocs ==
  { ChainDoc(b, t) : b \in {LinkName(1), <<" ", "l", "2">>, nZ, NULL},
                     t \in {LinkName(2), nZ, NULL} }
  \cup { [EmptyDoc EXCEPT !.group =
            <<GroupElem(nA, <<>>, <<>>,
                        <<[base_link |-> LinkName(1), tip_link |-> LinkName(2)],
                          [base_link |-> LinkName(2), tip_link |-> LinkName(1)]>>, <<>>)>>] }

\* one group state with one joint, over every value string
ValueStrings == SeqsUpTo({" ", "1", "x"}, MaxValLen)
vjA == [name |-> <<"v">>, child_link |-> LinkName(1), parent_frame |-> <<"w">>,
        type |-> tFixed]
ValueDocs ==
  { [EmptyDoc EXCEPT !.group = <<GroupElem(nA, <<LinkName(1)>>, <<>>, <<>>, <<>>)>>,
                     !.group_state =
                       <<[name |-> <<"s">>, group |-> nA,
                          joint |-> <<[name |-> JointName(2), value |-> v]>>]>>] :
      v \in ValueStrings }

\* group states and end effectors that refer to kept, pruned and undeclared
\* groups, with joints of the kinematic model, virtual joints and unknown ones
RefGroups ==
  { <<GroupElem(nA, <<LinkName(1), nZ, NULL>>, <<JointName(2), <<"v">>, nZ, NULL>>, <<>>, <<>>),
      GroupElem(nB, <<>>, <<>>, <<>>, <<nB, NULL>>)>>,
    <<GroupElem(nA, <<>>, <<>>, <<>>, <<>>), GroupElem(NULL, <<>>, <<>>, <<>>, <<>>)>> }
StateJoints ==
  { [name |-> JointName(2), value |-> <<"1">>],
    [name |-> <<" ", "v">>, value |-> <<"1", " ", "x", " ", "1">>],
    [name |-> nZ, value |-> <<"1">>],
    [name |-> NULL, value |-> <<"1">>],
    [name |-> JointName(2), value |-> NULL] }
StateDocs ==
  { [EmptyDoc EXCEPT !.virtual_joint = <<vjA>>, !.group = gs,
                     !.group_state =
                       <<[name |-> sn, group |-> gn, joint |-> js],
                         [name |-> <<"t">>, group |-> nApad,
                          joint |-> <<[name |-> JointName(2), value |-> <<"1", " ", "1">>],
                                      [name |-> JointName(2), value |-> <<"x">>]>>]>>,
                     !.end_effector =
                       <<[name |-> <<"e">>, group |-> gn, parent_link |-> LinkName(2)],
                         [name |-> <<"f">>, group |-> nA, parent_link |-> LinkName(1)]>>] :
      gs \in RefGroups, sn \in {<<"s">>, NULL}, gn \in {nA, nB, nC, NULL},
      js \in SeqsUpTo(StateJoints, MaxStateJoints) }

\* the remaining loaders and the root element
VirtualJointDocs ==
  { [EmptyDoc EXCEPT !.virtual_joint =
       <<[name |-> n, child_link |-> c, parent_frame |-> f, type |-> t]>>] :
      n \in {<<"v">>, NULL}, c \in {LinkName(1), nZ, NULL}, f \in {<<"w">>, NULL},
      t \in {tFixed, tFloating, tPlanar, tBogus, NULL} }
EndEffectorDocs ==
  { [EmptyDoc EXCEPT !.group = <<GroupElem(nA, <<>>, <<>>, <<>>, <<>>)>>,
                     !.end_effector =
                       <<[name |-> n, group |-> g, parent_link |-> p]>>] :
      n \in {<<"e">>, NULL}, g \in {nApad, nB, NULL}, p \in {LinkName(1), nZ, NULL} }
VisualSensorDocs ==
  { [EmptyDoc EXCEPT !.visual_sensor =
       <<[name |-> n, frame |-> f, fov_angle |-> a, min_range |-> lo, max_range |-> hi]>>] :
      n \in {<<"c">>, NULL}, f \in {<<"w">>, NULL}, a \in {<<"1">>, <<"x">>, NULL},
      lo \in {<<"1">>, <<" ", "1">>, NULL}, hi \in {<<"1", "1">>, <<>>, NULL} }
DisabledCollisionDocs ==
  { [EmptyDoc EXCEPT !.disable_collisions = <<[link1 |-> a, link2 |-> b]>>] :
      a \in {LinkName(1), nZ, NULL}, b \in {<<" ", "l", "2">>, nZ, NULL} }
RootDocs ==
  { [EmptyDoc EXCEPT !.tag = t, !.name = n,
                     !.group = <<GroupElem(nA, <<LinkName(1)>>, <<>>, <<>>, <<>>)>>] :
      t \in {"robot", "other"}, n \in {rName, <<" ", "r">>, nZ, NULL} }

Worlds ==
  ChainWorlds
  \cup {World(DefaultUrdf, d, TRUE) :
          d \in SubgroupDocs \cup ScenarioDocs \cup ChainFaultDocs \cup VirtualJointDocs \cup EndEffectorDocs
                \cup VisualSensorDocs \cup DisabledCollisionDocs \cup RootDocs}
  \cup {World(DefaultUrdf, d, b) : d \in ValueDocs \cup StateDocs, b \in BOOLEAN}

\* -------------------------------------------------------------------- state
VARIABLES
  urdf_model,    \* the kinematic model passed to every entry point
  xml,           \* the document (its root element)
  lhs_first,     \* the build evaluates joint_values_[jname_str] before lexical_cast
  model,         \* the fields of srdf::Model
  pc,            \* the statement the load is at; "idle" between calls
  arg,           \* the argument of the innermost entry point called
  ret,           \* the value the last call returned
  ran,           \* the loaders called by the current initXml, in call order
  loads,         \* calls returned so far
  gi, g, ci,     \* loadGroups: index of group_xml, the Group g, index of chain_xml
  l, seen, found,           \* loadGroups: the locals of the chain check
  known_groups, update,     \* loadGroups: the locals of the subgroup check
  scans,         \* iterations of while (update) begun in this loadGroups
  log,           \* the ROS_ERROR / ROS_WARN calls of the current loadGroups
  startEmpty,    \* the Model was empty when the current call was made
  single         \* the Model after the first successful load, made on an empty Model

vars == <<urdf_model, xml, lhs_first, model, pc, arg, ret, ran, loads, gi, g, ci,
          l, seen, found, known_groups, update, scans, log, startEmpty, single>>
world == <<urdf_model, xml, lhs_first>>
groupLocals == <<gi, g, ci, l, seen, found, known_groups, update, scans, log>>
chainLocals == <<l, seen, found>>

\* a Model as its constructor leaves it
EmptyModel ==
  [name_ |-> <<>>, groups_ |-> <<>>, group_states_ |-> <<>>, virtual_joints_ |-> <<>>,
   end_effectors_ |-> <<>>, visual_sensors_ |-> <<>>, disabled_collisions_ |-> <<>>]

\* clear without groups_.clear()
clearKeepsGroups(m) ==
  [name_ |-> <<>>, groups_ |-> m.groups_, group_states_ |-> <<>>, virtual_joints_ |-> <<>>,
   end_effectors_ |-> <<>>, visual_sensors_ |-> <<>>, disabled_collisions_ |-> <<>>]

\* srdf::Model::clear
clear(m) ==
  [name_ |-> <<>>, groups_ |-> <<>>, group_states_ |-> <<>>, virtual_joints_ |-> <<>>,
   end_effectors_ |-> <<>>, visual_sensors_ |-> <<>>, disabled_collisions_ |-> <<>>]

NoGroup == [name_ |-> <<>>, links_ |-> <<>>, joints_ |-> <<>>, chains_ |-> <<>>,
            subgroups_ |-> <<>>]
NoSingle == [at |-> 0, model |-> EmptyModel]

Init ==
  /\ \E w \in Worlds : urdf_model = w.urdf /\ xml = w.xml /\ lhs_first = w.lhs_first
  /\ model = EmptyModel
  /\ pc = "idle" /\ arg = "none" /\ ret = FALSE /\ ran = <<>> /\ loads = 0
  /\ gi = 0 /\ g = NoGroup /\ ci = 0
  /\ l = 0 /\ seen = {} /\ found = FALSE
  /\ known_groups = {} /\ update = FALSE /\ scans = 0 /\ log = <<>>
  /\ startEmpty = TRUE /\ single = NoSingle

\* ------------------------------------------------------------ entry points
\* a caller may start a load when none is running
CanCall == pc = "idle" /\ loads < MaxLoads

\* a return statement of an entry point
Returns(value) == pc' = "idle" /\ ret' = value /\ loads' = loads + 1

\* TiXmlDocument::FirstChildElement("robot"): the root element if so tagged
NoElement == [null |-> TRUE]
FirstChildElement(doc, tag) == IF doc.tag = tag THEN doc ELSE NoElement

\* initFile: the file opens (and holds the text of xml) or it does not
InitFile ==
  /\ CanCall
  /\ \E is_open \in BOOLEAN :
       IF is_open
       THEN /\ arg' = "file" /\ pc' = "initString"
            /\ UNCHANGED <<ret, loads>>
       ELSE /\ arg' = "unopened_file" /\ Returns(FALSE)
  /\ startEmpty' = (model = EmptyModel)
  /\ UNCHANGED <<world, model, ran, groupLocals, single>>

\* initString: xml_doc.Parse, then initXml(urdf_model, &xml_doc)
InitString ==
  /\ CanCall \/ pc = "initString"
  /\ arg' = "text" /\ pc' = "initXmlDoc"
  /\ startEmpty' = IF pc = "idle" THEN model = EmptyModel ELSE startEmpty
  /\ UNCHANGED <<world, model, ret, ran, loads, groupLocals, single>>

\* initXml(urdf_model, TiXmlDocument*)
InitXmlDoc ==
  /\ \E is_null \in BOOLEAN :
       /\ IF is_null THEN CanCall ELSE CanCall \/ pc = "initXmlDoc"
       /\ LET robot_xml == IF is_null THEN NoElement ELSE FirstChildElement(xml, "robot")
          IN  IF robot_xml = NoElement
              THEN /\ arg' = (IF is_null THEN "null_doc" ELSE "doc")
                   /\ Returns(FALSE)
              ELSE /\ arg' = "doc" /\ pc' = "initXmlElem"
                   /\ UNCHANGED <<ret, loads>>
  /\ startEmpty' = IF pc = "idle" THEN model = EmptyModel ELSE startEmpty
  /\ UNCHANGED <<world, model, ran, groupLocals, single>>

\* rootRejected failing the load for a root element without a name as well
rootRejectedUnnamed(is_null, robot_xml) ==
  is_null \/ robot_xml.tag # "robot" \/ robot_xml.name = NULL

\* the test on the root element: !robot_xml || robot_xml->ValueStr() != "robot"
rootRejected(is_null, robot_xml) == is_null \/ robot_xml.tag # "robot"

\* initXml(urdf_model, TiXmlElement*) up to the first loader
InitXmlElem ==
  /\ \E is_null \in BOOLEAN :
       /\ IF is_null THEN CanCall ELSE CanCall \/ pc = "initXmlElem"
       /\ LET m == clear(model)
          IN  IF rootRejected(is_null, xml)
              THEN /\ arg' = (IF is_null THEN "null_elem" ELSE "elem")
                   /\ model' = m
                   /\ Returns(FALSE)
              ELSE /\ arg' = "elem"
                   /\ model' = IF xml.name = NULL THEN m
                               ELSE [m EXCEPT !.name_ = trim_copy(xml.name)]
                   /\ pc' = "loadVirtualJoints"
                   /\ UNCHANGED <<ret, loads>>
  /\ ran' = <<>>
  /\ startEmpty' = IF pc = "idle" THEN model = EmptyModel ELSE startEmpty
  /\ UNCHANGED <<world, groupLocals, single>>

\* ---------------------------------------------------------- virtual joints
sFixed == <<"f", "i", "x", "e", "d">>
sFloating == <<"f", "l", "o", "a", "t", "i", "n", "g">>
sPlanar == <<"p", "l", "a", "n", "a", "r">>

vjAccepted(urdf, e) ==
  /\ e.name # NULL
  /\ e.child_link # NULL
  /\ getLink(urdf, trim_copy(e.child_link)) # 0
  /\ e.parent_frame # NULL
  /\ e.type # NULL

vjMake(e) ==
  LET t == tolower(trim_copy(e.type))
  IN  [type_ |-> IF t # sPlanar /\ t # sFloating /\ t # sFixed THEN sFixed ELSE t,
       name_ |-> trim_copy(e.name),
       child_link_ |-> trim_copy(e.child_link),
       parent_frame_ |-> trim_copy(e.parent_frame)]

loadVirtualJoints(urdf, robot_xml) ==
  LET kept == SelectSeq(robot_xml.virtual_joint, LAMBDA e : vjAccepted(urdf, e))
  IN  [i \in 1..Len(kept) |-> vjMake(kept[i])]

LoadVirtualJoints ==
  /\ pc = "loadVirtualJoints"
  /\ model' = [model EXCEPT !.virtual_joints_ = @ \o loadVirtualJoints(urdf_model, xml)]
  /\ ran' = Append(ran, "loadVirtualJoints")
  /\ pc' = "loadGroups"
  /\ UNCHANGED <<world, arg, ret, loads, groupLocals, startEmpty, single>>

\* ------------------------------------------------------------------ groups
\* a joint of the kinematic model or a virtual joint already in the Model
jointKnown(urdf, vjs, nm) ==
  getJoint(urdf, nm) \/ \E k \in 1..Len(vjs) : vjs[k].name_ = nm

\* the links of a group element that are pushed to g.links_
groupLinks(urdf, e) ==
  LET kept == SelectSeq(e.link, LAMBDA n : n # NULL /\ getLink(urdf, trim_copy(n)) # 0)
  IN  [i \in 1..Len(kept) |-> trim_copy(kept[i])]

\* the joints of a group element that are pushed to g.joints_
groupJoints(urdf, vjs, e) ==
  LET kept == SelectSeq(e.joint, LAMBDA n : n # NULL /\ jointKnown(urdf, vjs, trim_copy(n)))
  IN  [i \in 1..Len(kept) |-> trim_copy(kept[i])]

\* a ROS_ERROR or ROS_WARN call: the message and the names it cites
Report(msg, a) == [msg |-> msg, a |-> a, b |-> <<>>]

\* the errors reported for the link and joint children of a group element
memberErrors(urdf, vjs, e) ==
  LET bad_l == SelectSeq(e.link, LAMBDA n : n = NULL \/ getLink(urdf, trim_copy(n)) = 0)
      bad_j == SelectSeq(e.joint, LAMBDA n : n = NULL \/ ~jointKnown(urdf, vjs, trim_copy(n)))
  IN  [i \in 1..Len(bad_l) |->
         IF bad_l[i] = NULL THEN Report("Link name not specified", NULL)
         ELSE Report("Link is not known to the URDF", bad_l[i])]
      \o [i \in 1..Len(bad_j) |->
         IF bad_j[i] = NULL THEN Report("Joint name not specified", NULL)
         ELSE Report("Joint is not known to the URDF", bad_j[i])]

\* the subgroups of a group element that are pushed to g.subgroups_
groupSubgroups(e) ==
  LET kept == SelectSeq(e.group, LAMBDA n : n # NULL)
  IN  [i \in 1..Len(kept) |-> trim_copy(kept[i])]

subgroupErrors(e) ==
  LET bad == SelectSeq(e.group, LAMBDA n : n = NULL)
  IN  [i \in 1..Len(bad) |-> Report("Group name not specified when included as subgroup", NULL)]

\* the call of loadGroups
LoadGroups ==
  /\ pc = "loadGroups"
  /\ ran' = Append(ran, "loadGroups")
  /\ pc' = "group" /\ gi' = 1 /\ log' = <<>> /\ scans' = 0
  /\ UNCHANGED <<world, model, arg, ret, loads, g, ci, chainLocals, known_groups, update,
                 startEmpty, single>>

\* the head of the loop over group elements, and the links and joints of one
GroupXml ==
  /\ pc = "group"
  /\ IF gi > Len(xml.group)
     THEN /\ pc' = "scan" /\ known_groups' = {} /\ update' = TRUE
          /\ gi' = 0
          /\ UNCHANGED <<g, ci, log>>
     ELSE LET e == xml.group[gi]
          IN  IF e.name = NULL
              THEN /\ log' = Append(log, Report("Group name not specified", NULL))
                   /\ gi' = gi + 1
                   /\ UNCHANGED <<pc, g, ci, known_groups, update>>
              ELSE /\ g' = [NoGroup EXCEPT
                              !.name_ = trim_copy(e.name),
                              !.links_ = groupLinks(urdf_model, e),
                              !.joints_ = groupJoints(urdf_model, model.virtual_joints_, e)]
                   /\ log' = log \o memberErrors(urdf_model, model.virtual_joints_, e)
                   /\ ci' = 1 /\ pc' = "chain"
                   /\ UNCHANGED <<gi, known_groups, update>>
  /\ UNCHANGED <<world, model, arg, ret, ran, loads, chainLocals, scans, startEmpty, single>>

base_str == trim_copy(xml.group[gi].chain[ci].base_link)
tip_str == trim_copy(xml.group[gi].chain[ci].tip_link)

\* the head of the loop over chain elements, and the attributes of one
ChainXml ==
  /\ pc = "chain"
  /\ IF ci > Len(xml.group[gi].chain)
     THEN /\ pc' = "subgroups" /\ ci' = 0
          /\ UNCHANGED <<log, chainLocals>>
     ELSE LET c == xml.group[gi].chain[ci]
          IN  IF c.base_link = NULL
              THEN /\ log' = Append(log, Report("Base link name not specified for chain", NULL))
                   /\ ci' = ci + 1
                   /\ UNCHANGED <<pc, chainLocals>>
              ELSE IF c.tip_link = NULL
              THEN /\ log' = Append(log, Report("Tip link name not specified for chain", NULL))
                   /\ ci' = ci + 1
                   /\ UNCHANGED <<pc, chainLocals>>
              ELSE IF getLink(urdf_model, base_str) = 0
              THEN /\ log' = Append(log, Report("Link is not known to the URDF", c.base_link))
                   /\ ci' = ci + 1
                   /\ UNCHANGED <<pc, chainLocals>>
              ELSE IF getLink(urdf_model, tip_str) = 0
              THEN /\ log' = Append(log, Report("Link is not known to the URDF", c.tip_link))
                   /\ ci' = ci + 1
                   /\ UNCHANGED <<pc, chainLocals>>
              ELSE /\ found' = FALSE
                   /\ l' = getLink(urdf_model, tip_str)
                   /\ seen' = {}
                   /\ pc' = "walk_tip"
                   /\ UNCHANGED <<ci, log>>
  /\ UNCHANGED <<world, model, arg, ret, ran, loads, gi, g, known_groups, update, scans,
                 startEmpty, single>>

\* WalkTip without seen.insert(l->name)
WalkTipNoSeen ==
  /\ pc = "walk_tip"
  /\ IF ~found /\ l # 0
     THEN /\ seen' = seen
          /\ IF LinkName(l) = base_str
             THEN found' = TRUE /\ l' = l
             ELSE found' = found /\ l' = getParent(urdf_model, l)
          /\ pc' = pc
     ELSE IF ~found
     THEN /\ l' = getLink(urdf_model, base_str)
          /\ pc' = "walk_base"
          /\ UNCHANGED <<seen, found>>
     ELSE /\ pc' = "chain_end"
          /\ UNCHANGED chainLocals
  /\ UNCHANGED <<world, model, arg, ret, ran, loads, gi, g, ci, known_groups, update, scans,
                 log, startEmpty, single>>

\* WalkTip without l = l->getParent()
WalkTipStays ==
  /\ pc = "walk_tip"
  /\ IF ~found /\ l # 0
     THEN /\ seen' = seen \cup {LinkName(l)}
          /\ IF LinkName(l) = base_str
             THEN found' = TRUE /\ l' = l
             ELSE found' = found /\ l' = l
          /\ pc' = pc
     ELSE IF ~found
     THEN /\ l' = getLink(urdf_model, base_str)
          /\ pc' = "walk_base"
          /\ UNCHANGED <<seen, found>>
     ELSE /\ pc' = "chain_end"
          /\ UNCHANGED chainLocals
  /\ UNCHANGED <<world, model, arg, ret, ran, loads, gi, g, ci, known_groups, update, scans,
                 log, startEmpty, single>>

\* one test of while (!found && l) on the walk up from the tip, and its body
WalkTip ==
  /\ pc = "walk_tip"
  /\ IF ~found /\ l # 0
     THEN /\ seen' = seen \cup {LinkName(l)}
          /\ IF LinkName(l) = base_str
             THEN found' = TRUE /\ l' = l
             ELSE found' = found /\ l' = getParent(urdf_model, l)
          /\ pc' = pc
     ELSE IF ~found
     THEN /\ l' = getLink(urdf_model, base_str)
          /\ pc' = "walk_base"
          /\ UNCHANGED <<seen, found>>
     ELSE /\ pc' = "chain_end"
          /\ UNCHANGED chainLocals
  /\ UNCHANGED <<world, model, arg, ret, ran, loads, gi, g, ci, known_groups, update, scans,
                 log, startEmpty, single>>

\* WalkBase looking for the tip itself instead of a link of seen
WalkBaseTipOnly ==
  /\ pc = "walk_base"
  /\ IF ~found /\ l # 0
     THEN /\ IF LinkName(l) = tip_str
             THEN found' = TRUE /\ l' = l
             ELSE found' = found /\ l' = getParent(urdf_model, l)
          /\ pc' = pc
     ELSE /\ pc' = "chain_end"
          /\ UNCHANGED <<l, found>>
  /\ UNCHANGED <<world, model, arg, ret, ran, loads, gi, g, ci, seen, known_groups, update,
                 scans, log, startEmpty, single>>

\* one test of while (!found && l) on the walk up from the base, and its body
WalkBase ==
  /\ pc = "walk_base"
  /\ IF ~found /\ l # 0
     THEN /\ IF LinkName(l) \in seen
             THEN found' = TRUE /\ l' = l
             ELSE found' = found /\ l' = getParent(urdf_model, l)
          /\ pc' = pc
     ELSE /\ pc' = "chain_end"
          /\ UNCHANGED <<l, found>>
  /\ UNCHANGED <<world, model, arg, ret, ran, loads, gi, g, ci, seen, known_groups, update,
                 scans, log, startEmpty, single>>

\* the chain is pushed to g.chains_ or reported
ChainEnd ==
  /\ pc = "chain_end"
  /\ IF found
     THEN /\ g' = [g EXCEPT !.chains_ = Append(@, <<base_str, tip_str>>)]
          /\ log' = log
     ELSE /\ log' = Append(log, [msg |-> "Links do not form a chain", a |-> base_str, b |-> tip_str])
          /\ g' = g
  /\ ci' = ci + 1 /\ pc' = "chain"
  /\ l' = 0 /\ seen' = {} /\ found' = FALSE
  /\ UNCHANGED <<world, model, arg, ret, ran, loads, gi, known_groups, update, scans,
                 startEmpty, single>>

\* the subgroups of the group element, and groups_.push_back(g)
SubGroups ==
  /\ pc = "subgroups"
  /\ LET e == xml.group[gi]
         done == [g EXCEPT !.subgroups_ = groupSubgroups(e)]
     IN  /\ model' = [model EXCEPT !.groups_ = Append(@, done)]
         /\ log' = log \o subgroupErrors(e)
                      \o (IF done.links_ = <<>> /\ done.joints_ = <<>> /\ done.chains_ = <<>>
                             /\ done.subgroups_ = <<>>
                          THEN <<Report("Group is empty", e.name)>> ELSE <<>>)
  /\ g' = NoGroup /\ gi' = gi + 1 /\ pc' = "group"
  /\ UNCHANGED <<world, arg, ret, ran, loads, ci, chainLocals, known_groups, update, scans,
                 startEmpty, single>>

\* the test of one group in the subgroup check: every subgroup is known
subgroupsKnown(gr, known) ==
  gr.subgroups_ = <<>> \/ \A j \in 1..Len(gr.subgroups_) : gr.subgroups_[j] \in known

RECURSIVE scanGroups(_, _, _, _)
\* the for loop over groups_ from index i on, within one while (update) pass
scanGroups(groups, i, known, upd) ==
  IF i > Len(groups) THEN [known_groups |-> known, update |-> upd]
  ELSE IF groups[i].name_ \in known THEN scanGroups(groups, i + 1, known, upd)
  ELSE IF subgroupsKnown(groups[i], known)
  THEN scanGroups(groups, i + 1, known \cup {groups[i].name_}, TRUE)
  ELSE scanGroups(groups, i + 1, known, upd)

\* one test of while (update), and one full pass over groups_
Scan ==
  /\ pc = "scan"
  /\ IF update
     THEN LET r == scanGroups(model.groups_, 1, known_groups, FALSE)
          IN  /\ known_groups' = r.known_groups
              /\ update' = r.update
              /\ scans' = scans + 1
              /\ pc' = pc
     ELSE /\ pc' = "prune"
          /\ UNCHANGED <<known_groups, update, scans>>
  /\ UNCHANGED <<world, model, arg, ret, ran, loads, gi, g, ci, chainLocals, log,
                 startEmpty, single>>

\* the groups kept by the last block of loadGroups
keptGroups(groups, known) ==
  IF Cardinality(known) # Len(groups)
  THEN SelectSeq(groups, LAMBDA gr : gr.name_ \in known)
  ELSE groups

unsatisfiedErrors(groups, known) ==
  IF Cardinality(known) # Len(groups)
  THEN LET bad == SelectSeq(groups, LAMBDA gr : gr.name_ \notin known)
       IN  [i \in 1..Len(bad) |-> Report("Group has unsatisfied subgroups", bad[i].name_)]
  ELSE <<>>

\* if there are erroneous groups, keep only the valid ones; loadGroups returns
Prune ==
  /\ pc = "prune"
  /\ model' = [model EXCEPT !.groups_ = keptGroups(@, known_groups)]
  /\ log' = log \o unsatisfiedErrors(model.groups_, known_groups)
  /\ pc' = "loadGroupStates"
  /\ UNCHANGED <<world, arg, ret, ran, loads, gi, g, ci, chainLocals, known_groups, update,
                 scans, startEmpty, single>>

\* ------------------------------------------------------------ group states
\* groupKnown without the search: every name passes
groupKnownAny(groups, nm) == TRUE

\* the search of groups_ for a name
groupKnown(groups, nm) == \E k \in 1..Len(groups) : groups[k].name_ = nm

\* boost::lexical_cast<double> succeeds on a non-empty run of digits
lexical_ok(val) == val # <<>> /\ \A i \in 1..Len(val) : val[i] \in Digits

RECURSIVE lexical_cast(_)
lexical_cast(val) ==
  IF val = <<>> THEN 0
  ELSE 10 * lexical_cast(SubSeq(val, 1, Len(val) - 1)) + 1

\* the characters operator>> extracts into a string: up to the next whitespace
RECURSIVE Token(_)
Token(s) == IF s = <<>> \/ Head(s) \in WS THEN <<>> ELSE <<Head(s)>> \o Token(Tail(s))

RECURSIVE readValues(_, _)
\* the loop over the stream ss holding the unread characters rest: the values
\* pushed, and whether lexical_cast threw
readValues(rest, vals) ==
  LET s == TrimLeft(rest)
      val == Token(s)
      after == TrimLeft(SubSeq(s, Len(val) + 1, Len(s)))
  IN  IF ~lexical_ok(val) THEN [vals |-> vals, threw |-> TRUE]
      ELSE IF after = <<>> THEN [vals |-> Append(vals, lexical_cast(val)), threw |-> FALSE]
      ELSE readValues(after, Append(vals, lexical_cast(val)))

\* gs.joint_values_[jname_str] after the pushes of one joint element
pushValues(jv, nm, vals, lhs) ==
  IF nm \in DOMAIN jv THEN [jv EXCEPT ![nm] = @ \o vals]
  ELSE IF lhs \/ vals # <<>> THEN (nm :> vals) @@ jv
  ELSE jv

RECURSIVE jointValues(_, _, _, _, _, _)
\* gs.joint_values_ after the joint elements from index i on
jointValues(urdf, vjs, lhs, joints, i, jv) ==
  IF i > Len(joints) THEN jv
  ELSE LET j == joints[i]
       IN  IF j.name = NULL \/ j.value = NULL \/ ~jointKnown(urdf, vjs, trim_copy(j.name))
           THEN jointValues(urdf, vjs, lhs, joints, i + 1, jv)
           ELSE jointValues(urdf, vjs, lhs, joints, i + 1,
                            pushValues(jv, trim_copy(j.name), readValues(j.value, <<>>).vals,
                                       lhs))

gsAccepted(groups, e) ==
  e.name # NULL /\ e.group # NULL /\ groupKnown(groups, trim_copy(e.group))

loadGroupStates(urdf, m, lhs, robot_xml) ==
  LET kept == SelectSeq(robot_xml.group_state, LAMBDA e : gsAccepted(m.groups_, e))
  IN  [i \in 1..Len(kept) |->
         [name_ |-> trim_copy(kept[i].name),
          group_ |-> trim_copy(kept[i].group),
          joint_values_ |->
            jointValues(urdf, m.virtual_joints_, lhs, kept[i].joint, 1, <<>>)]]

LoadGroupStates ==
  /\ pc = "loadGroupStates"
  /\ model' = [model EXCEPT
                 !.group_states_ = @ \o loadGroupStates(urdf_model, model, lhs_first, xml)]
  /\ ran' = Append(ran, "loadGroupStates")
  /\ pc' = "loadEndEffectors"
  /\ UNCHANGED <<world, arg, ret, loads, groupLocals, startEmpty, single>>

\* ----------------------------------------------------------- end effectors
eeAccepted(urdf, groups, e) ==
  /\ e.name # NULL
  /\ e.group # NULL
  /\ groupKnown(groups, trim_copy(e.group))
  /\ e.parent_link # NULL
  /\ getLink(urdf, trim_copy(e.parent_link)) # 0

loadEndEffectors(urdf, m, robot_xml) ==
  LET kept == SelectSeq(robot_xml.end_effector, LAMBDA e : eeAccepted(urdf, m.groups_, e))
  IN  [i \in 1..Len(kept) |->
         [name_ |-> trim_copy(kept[i].name),
          component_group_ |-> trim_copy(kept[i].group),
          parent_link_ |-> trim_copy(kept[i].parent_link)]]

LoadEndEffectors ==
  /\ pc = "loadEndEffectors"
  /\ model' = [model EXCEPT !.end_effectors_ = @ \o loadEndEffectors(urdf_model, model, xml)]
  /\ ran' = Append(ran, "loadEndEffectors")
  /\ pc' = "loadVisualSensors"
  /\ UNCHANGED <<world, arg, ret, loads, groupLocals, startEmpty, single>>

\* ---------------------------------------------------------- visual sensors
vsAccepted(e) ==
  /\ e.name # NULL /\ e.frame # NULL
  /\ e.fov_angle # NULL /\ e.min_range # NULL /\ e.max_range # NULL
  /\ lexical_ok(e.fov_angle) /\ lexical_ok(e.min_range) /\ lexical_ok(e.max_range)

loadVisualSensors(robot_xml) ==
  LET kept == SelectSeq(robot_xml.visual_sensor, vsAccepted)
  IN  [i \in 1..Len(kept) |->
         [name_ |-> trim_copy(kept[i].name),
          frame_ |-> trim_copy(kept[i].frame),
          fov_angle_ |-> lexical_cast(kept[i].fov_angle),
          min_range_ |-> lexical_cast(kept[i].min_range),
          max_range_ |-> lexical_cast(kept[i].max_range)]]

LoadVisualSensors ==
  /\ pc = "loadVisualSensors"
  /\ model' = [model EXCEPT !.visual_sensors_ = @ \o loadVisualSensors(xml)]
  /\ ran' = Append(ran, "loadVisualSensors")
  /\ pc' = "loadDisabledCollisions"
  /\ UNCHANGED <<world, arg, ret, loads, groupLocals, startEmpty, single>>

\* ------------------------------------------------------ disabled collisions
dcAccepted(urdf, e) ==
  /\ e.link1 # NULL /\ e.link2 # NULL
  /\ getLink(urdf, trim_copy(e.link1)) # 0
  /\ getLink(urdf, trim_copy(e.link2)) # 0

loadDisabledCollisions(urdf, robot_xml) ==
  LET kept == SelectSeq(robot_xml.disable_collisions, LAMBDA e : dcAccepted(urdf, e))
  IN  [i \in 1..Len(kept) |-> <<trim_copy(kept[i].link1), trim_copy(kept[i].link2)>>]

LoadDisabledCollisions ==
  /\ pc = "loadDisabledCollisions"
  /\ model' = [model EXCEPT
                 !.disabled_collisions_ = @ \o loadDisabledCollisions(urdf_model, xml)]
  /\ ran' = Append(ran, "loadDisabledCollisions")
  /\ pc' = "return"
  /\ UNCHANGED <<world, arg, ret, loads, groupLocals, startEmpty, single>>

\* return true, at the end of initXml(urdf_model, TiXmlElement*)
Return ==
  /\ pc = "return"
  /\ Returns(TRUE)
  /\ single' = IF single = NoSingle /\ startEmpty
               THEN [at |-> loads + 1, model |-> model] ELSE single
  /\ UNCHANGED <<world, model, arg, ran, groupLocals, startEmpty>>

\* ----------------------------------------------------------- specification
Next ==
  \/ InitFile \/ InitString \/ InitXmlDoc \/ InitXmlElem
  \/ LoadVirtualJoints
  \/ LoadGroups \/ GroupXml \/ ChainXml \/ WalkTip \/ WalkBase \/ ChainEnd \/ SubGroups
  \/ Scan \/ Prune
  \/ LoadGroupStates \/ LoadEndEffectors \/ LoadVisualSensors \/ LoadDisabledCollisions
  \/ Return

Spec == Init /\ [][Next]_vars

\* The loops of a load whose end is not plain from the code are the two walks
\* of the chain check and the subgroup check; LiveSpec follows the loads of the
\* documents that exercise them.  A call that was made runs on: the load is
\* synchronous and nothing preempts it.
LoopWorlds ==
  ChainWorlds
  \cup {World(DefaultUrdf, d, TRUE) : d \in SubgroupDocs \cup ScenarioDocs \cup ChainFaultDocs}
LiveInit == Init /\ World(urdf_model, xml, lhs_first) \in LoopWorlds
Running == pc # "idle" /\ Next
LiveSpec == LiveInit /\ [][Next]_vars /\ WF_vars(Running)

\* ================================================================== claims
\* ---- the words of the claims, stated on the document and the kinematic model
SixLoaders ==
  <<"loadVirtualJoints", "loadGroups", "loadGroupStates", "loadEndEffectors",
    "loadVisualSensors", "loadDisabledCollisions">>

Returned == pc = "idle" /\ loads > 0
Loaded == Returned /\ ret = TRUE
GroupsLoaded == pc = "loadGroupStates"

Range(f) == {f[i] : i \in DOMAIN f}
GroupNames(groups) == {groups[k].name_ : k \in 1..Len(groups)}

\* the group elements that declare a name, as (name, subgroup names)
Declared ==
  LET named == SelectSeq(xml.group, LAMBDA e : e.name # NULL)
  IN  [i \in 1..Len(named) |->
         [name_ |-> trim_copy(named[i].name),
          subgroups_ |-> Range(groupSubgroups(named[i]))]]
DeclaredNames == {Declared[i].name_ : i \in 1..Len(Declared)}
AllNames == DeclaredNames \cup UNION {Declared[i].subgroups_ : i \in 1..Len(Declared)}

\* the names a set of names lists as subgroups
SubsOf(names) ==
  UNION {Declared[i].subgroups_ : i \in {k \in 1..Len(Declared) : Declared[k].name_ \in names}}

RECURSIVE DependsOn(_, _)
\* the names reached from a set of names in at most k further steps
DependsOn(names, k) ==
  IF k = 0 THEN names ELSE names \cup DependsOn(SubsOf(names), k - 1)

\* a group of that name and those subgroups depends on itself
SelfDependent(nm, subs) == nm \in DependsOn(subs, Cardinality(AllNames))

Reported(msg, nm) == \E i \in 1..Len(log) : log[i].msg = msg /\ log[i].a = nm

\* C1: after loadGroups, no group that depends on itself through the subgroup
\* relation is in the group list, and an error was reported for each of them
C1_CyclicGroupsRemoved ==
  GroupsLoaded =>
    /\ \A k \in 1..Len(model.groups_) :
         ~SelfDependent(model.groups_[k].name_, Range(model.groups_[k].subgroups_))
    /\ \A i \in 1..Len(Declared) :
         SelfDependent(Declared[i].name_, Declared[i].subgroups_)
           => Reported("Group has unsatisfied subgroups", Declared[i].name_)

\* C2: after loadGroups, no group that lists an undeclared name as subgroup is in
\* the group list, and every declared group without subgroups is in it
C2_UndeclaredSubgroupRemoved ==
  GroupsLoaded =>
    /\ \A k \in 1..Len(model.groups_) :
         Range(model.groups_[k].subgroups_) \subseteq DeclaredNames
    /\ \A i \in 1..Len(Declared) :
         Declared[i].subgroups_ = {}
           => \E k \in 1..Len(model.groups_) :
                /\ model.groups_[k].name_ = Declared[i].name_
                /\ model.groups_[k].subgroups_ = <<>>

\* the links met on the upward walk from link i, i included
AncestorsOrSelf(i) == {Up(urdf_model.parent, i, k) : k \in 0..MaxLinks} \ {0}

\* base is an ancestor-or-self of tip, or tip of base, or the two walks share a link
Connected(base, tip) ==
  \/ base \in AncestorsOrSelf(tip)
  \/ tip \in AncestorsOrSelf(base)
  \/ AncestorsOrSelf(base) \cap AncestorsOrSelf(tip) # {}

\* the chain elements of a group element that name two existing links
ChainsOfLinks(e) ==
  SelectSeq(e.chain, LAMBDA c : /\ c.base_link # NULL /\ c.tip_link # NULL
                                /\ getLink(urdf_model, trim_copy(c.base_link)) # 0
                                /\ getLink(urdf_model, trim_copy(c.tip_link)) # 0)

\* C3: when the chains of a group element are done, the group's chain list is
\* the (base, tip) of the chain elements between existing links that are
\* connected, in document order; base = tip is connected
C3_ChainAcceptedIffConnected ==
  pc = "subgroups" =>
    LET ok == SelectSeq(ChainsOfLinks(xml.group[gi]),
                        LAMBDA c : Connected(getLink(urdf_model, trim_copy(c.base_link)),
                                             getLink(urdf_model, trim_copy(c.tip_link))))
    IN  /\ g.chains_ = [i \in 1..Len(ok) |->
                          <<trim_copy(ok[i].base_link), trim_copy(ok[i].tip_link)>>]
        /\ \A i \in 1..Len(ChainsOfLinks(xml.group[gi])) :
             LET c == ChainsOfLinks(xml.group[gi])[i]
             IN  trim_copy(c.base_link) = trim_copy(c.tip_link)
                   => \E k \in 1..Len(ok) : ok[k] = c

\* a chain between two links of which neither is above the other was accepted
C3_Witness ==
  /\ pc = "subgroups"
  /\ \E k \in 1..Len(g.chains_) :
       LET b == getLink(urdf_model, g.chains_[k][1])
           t == getLink(urdf_model, g.chains_[k][2])
       IN  b \notin AncestorsOrSelf(t) /\ t \notin AncestorsOrSelf(b)

RECURSIVE Tokens(_)
\* the maximal runs of non-whitespace characters of a string, in order
Tokens(s) ==
  LET t == TrimLeft(s)
  IN  IF t = <<>> THEN <<>>
      ELSE <<Token(t)>> \o Tokens(SubSeq(t, Len(Token(t)) + 1, Len(t)))

\* the numbers of the tokens of a value attribute that parse, in order
ParsableValues(value) ==
  LET good == SelectSeq(Tokens(value), lexical_ok)
  IN  [i \in 1..Len(good) |-> lexical_cast(good[i])]

\* the group_state elements that name themselves and a group of the Model
AcceptedStates ==
  SelectSeq(xml.group_state,
            LAMBDA e : /\ e.name # NULL /\ e.group # NULL
                       /\ trim_copy(e.group) \in GroupNames(model.groups_))

\* the joint children of a group_state that are read for joint nm
JointsRead(e, nm) ==
  SelectSeq(e.joint,
            LAMBDA j : /\ j.name # NULL /\ j.value # NULL
                       /\ trim_copy(j.name) = nm
                       /\ jointKnown(urdf_model, model.virtual_joints_, nm))

RECURSIVE AllParsable(_, _)
\* the parsable values of the joint elements js from index i on, concatenated
AllParsable(js, i) ==
  IF i > Len(js) THEN <<>> ELSE ParsableValues(js[i].value) \o AllParsable(js, i + 1)

StoredValues(gs, nm) ==
  IF nm \in DOMAIN gs.joint_values_ THEN gs.joint_values_[nm] ELSE <<>>

\* C4: in a loaded Model, the values stored for a joint of a group state are the
\* parsable tokens of its value attributes, in document order, unparsable ones
\* left out
C4_AllParsableTokensStored ==
  Loaded =>
    /\ Len(model.group_states_) = Len(AcceptedStates)
    /\ \A k \in 1..Len(AcceptedStates) :
         \A i \in 1..Len(AcceptedStates[k].joint) :
           LET j == AcceptedStates[k].joint[i]
           IN  (j.name # NULL /\ j.value # NULL)
                 => LET nm == trim_copy(j.name)
                        js == JointsRead(AcceptedStates[k], nm)
                    IN  js # <<>>
                          => StoredValues(model.group_states_[k], nm) = AllParsable(js, 1)

\* C5: when a call has returned, nothing of an earlier load is in the Model: it
\* is empty after a failure, and after a success it is what one load gives
C5_EveryAttemptResets ==
  Returned =>
    IF ret THEN single.at > 0 /\ model = single.model
    ELSE model = EmptyModel

\* C6: in a loaded Model no two groups have the same name
C6_GroupNamesUnique ==
  Loaded =>
    \A i, j \in 1..Len(model.groups_) :
      model.groups_[i].name_ = model.groups_[j].name_ => i = j

\* C7: in a loaded Model every group state and every end effector names a group
\* of the final group list
C7_ReferencesNameFinalGroups ==
  Loaded =>
    /\ \A k \in 1..Len(model.group_states_) :
         model.group_states_[k].group_ \in GroupNames(model.groups_)
    /\ \A k \in 1..Len(model.end_effectors_) :
         model.end_effectors_[k].component_group_ \in GroupNames(model.groups_)

\* a loaded Model with a group state and an end effector, from a document of
\* which a declared group was pruned and is referred to by a group state
C7_Witness ==
  /\ Loaded
  /\ model.group_states_ # <<>> /\ model.end_effectors_ # <<>>
  /\ \E n \in DeclaredNames \ GroupNames(model.groups_) :
       \E i \in 1..Len(xml.group_state) :
         /\ xml.group_state[i].name # NULL /\ xml.group_state[i].group # NULL
         /\ trim_copy(xml.group_state[i].group) = n

\* the call was given no root element tagged robot, or a file that does not open
NoRobotRoot == arg \in {"unopened_file", "null_doc", "null_elem"} \/ xml.tag # "robot"

\* C8: a call returns failure exactly when it was given no root element tagged
\* robot or a file that does not open; a call that returns success has run the
\* six loaders in their order
C8_FailsOnlyOnRoot ==
  Returned =>
    /\ ret = FALSE <=> NoRobotRoot
    /\ ret = TRUE => ran = SixLoaders

\* a successful load of a document without robot name in which a loader met a
\* fault
C8_Witness ==
  /\ Loaded /\ ran = SixLoaders
  /\ \/ xml.name = NULL
     \/ Len(model.groups_) < Len(xml.group)
     \/ Len(model.group_states_) < Len(xml.group_state)
     \/ Len(model.visual_sensors_) < Len(xml.visual_sensor)

\* C9: a later successful load of the document leaves the Model that the first
\* load, made on an empty Model, left
C9_ReloadEqualsSingleLoad ==
  (Loaded /\ single.at > 0) => model = single.model

\* the second of two successful loads in a row, of a document with groups, group
\* states and end effectors, has returned
C9_Witness ==
  /\ Loaded /\ single.at > 0 /\ single.at = loads - 1
  /\ model.groups_ # <<>> /\ model.group_states_ # <<>> /\ model.end_effectors_ # <<>>

\* C10: a call that was made returns; the while (update) loop begins at most
\* (number of distinct group names + 1) passes, and a pass that does not end the
\* loop makes a new name known
C10_LoadTerminates ==
  /\ [](pc \in {"scan", "prune"} =>
          scans <= Cardinality(GroupNames(model.groups_)) + 1)
  /\ [][(pc = "scan" /\ update /\ update') =>
          (known_groups \subseteq known_groups' /\ known_groups' # known_groups)]_vars
  /\ (pc # "idle") ~> (pc = "idle")

\* the subgroup check ran the most passes its groups allow, three or more
C10_Witness ==
  /\ pc = "prune"
  /\ scans = Cardinality(GroupNames(model.groups_)) + 1
  /\ scans >= 3

\* the root of the tree link i is in: its ancestor-or-self without a parent
RootOf(i) == CHOOSE r \in AncestorsOrSelf(i) : urdf_model.parent[r] = 0

\* every link reaches the same root
SingleRooted == \A i, j \in Links : RootOf(i) = RootOf(j)

\* C11: when the chains of a group element are done, the chain elements between
\* existing links that were accepted are those whose links are in one tree; in a
\* model with a single root every one of them was accepted
C11_RejectedOnlyAcrossTrees ==
  pc = "subgroups" =>
    LET cs == ChainsOfLinks(xml.group[gi])
        same == SelectSeq(cs, LAMBDA c :
                  RootOf(getLink(urdf_model, trim_copy(c.base_link)))
                    = RootOf(getLink(urdf_model, trim_copy(c.tip_link))))
    IN  /\ g.chains_ = [i \in 1..Len(same) |->
                          <<trim_copy(same[i].base_link), trim_copy(same[i].tip_link)>>]
        /\ SingleRooted => Len(g.chains_) = Len(cs)

\* in a single-rooted model with a branching, a chain between two links of
\* which neither is above the other was accepted
C11_Witness ==
  /\ pc = "subgroups" /\ SingleRooted
  /\ Len(g.chains_) = Len(ChainsOfLinks(xml.group[gi]))
  /\ \E k \in 1..Len(g.chains_) :
       LET b == getLink(urdf_model, g.chains_[k][1])
           t == getLink(urdf_model, g.chains_[k][2])
       IN  b \notin AncestorsOrSelf(t) /\ t \notin AncestorsOrSelf(b)

====
